---- MODULE Spec2Model ----
(***************************************************************************)
(* State-machine model of src/lambda_function.py: an AWS Lambda handler    *)
(* that creates an RDS snapshot, waits for it and copies it to a second    *)
(* region.  A "process" is one loaded copy of the module (a Lambda         *)
(* execution environment): the module body (lines 5-15) runs once when the *)
(* process is loaded, lambda_handler (lines 17-58) runs once per           *)
(* invocation, and a process serves its invocations one after the other.   *)
(* The RDS service of the two regions is the environment: it answers each  *)
(* call with success or with an exception, and moves snapshots from        *)
(* 'creating' to 'available' or 'failed' on its own.                       *)
(***************************************************************************)
EXTENDS Integers, Sequences, FiniteSets, TLC

VARIABLES
    clock,          \* seconds elapsed since BaseEpoch (the UTC wall clock)
    loaded,         \* loaded[p]: the module body has run in process p
    timestamp,      \* module global `timestamp` of each process
    snapshot_name,  \* module global `snapshot_name` of each process
    copy_name,      \* module global `copy_name` of each process
    pc,             \* position of the handler in each process
    cur,            \* index in invs of the invocation a process is serving
    attempts,       \* num_attempts of the waiter a process is blocked in
    invs,           \* one record per invocation: the calls it made, its result
    src,            \* source region: snapshot name -> status
    dst             \* destination region: copy name -> [status, source]

vars == <<clock, loaded, timestamp, snapshot_name, copy_name, pc, cur, attempts, invs, src, dst>>

-----------------------------------------------------------------------------
(* Bounds of the model *)

MaxClock == 1

MaxInvocations == 2

\* 2026-12-31 23:59:58 UTC: the clock values of the model cross a change of
\* second, minute, hour, day, month and year.
BaseEpoch == 1798761598

Procs == {"p1", "p2"}

-----------------------------------------------------------------------------
(* Module-level configuration, lines 5-8 *)

source_region == "source-region"

destination_region == "destination-region"

db_instance_identifier == "mainline-pro-db"

account_id == "add-your-aws-account-id-here"

(* WaiterConfig={'Delay': 30, 'MaxAttempts': 10}, line 31 *)

Delay == 30

\* The loop allows one poll more.
MaxAttemptsOff == 10 + 1

MaxAttempts == 10

-----------------------------------------------------------------------------
(* datetime.utcnow().strftime('%Y%m%d-%H%M%S'), line 11 *)

DigitStr == <<"0", "1", "2", "3", "4", "5", "6", "7", "8", "9">>

Pad2(n) == DigitStr[((n \div 10) % 10) + 1] \o DigitStr[(n % 10) + 1]

Pad4(n) == Pad2(n \div 100) \o Pad2(n % 100)

\* Proleptic Gregorian date of a day number counted from 1970-01-01.
CivilFromDays(days) ==
    LET z    == days + 719468
        era  == z \div 146097
        doe  == z - era * 146097
        yoe  == (doe - (doe \div 1460) + (doe \div 36524) - (doe \div 146096)) \div 365
        doy  == doe - (365 * yoe + (yoe \div 4) - (yoe \div 100))
        mp   == (5 * doy + 2) \div 153
        d    == doy - ((153 * mp + 2) \div 5) + 1
        m    == IF mp < 10 THEN mp + 3 ELSE mp - 9
        y    == yoe + era * 400 + (IF m <= 2 THEN 1 ELSE 0)
    IN  [year |-> y, month |-> m, day |-> d]

strftime(epoch) ==
    LET date == CivilFromDays(epoch \div 86400)
        secs == epoch % 86400
    IN  Pad4(date.year) \o Pad2(date.month) \o Pad2(date.day) \o "-"
        \o Pad2(secs \div 3600) \o Pad2((secs % 3600) \div 60) \o Pad2(secs % 60)

utcnow == BaseEpoch + clock

(* f'rds-auto-snapshot-mainline-{timestamp}', line 12 *)
SnapshotNameOf(ts) == "rds-auto-snapshot-mainline-" \o ts

(* f'rds-auto-copy-mainline-{timestamp}', line 13 *)
CopyNameOf(ts) == "rds-auto-copy-mainline-" \o ts

(* f'arn:aws:rds:{source_region}:{account_id}:snapshot:{snapshot_name}', line 36 *)
snapshot_arn(name) ==
    "arn:aws:rds:" \o source_region \o ":" \o account_id \o ":snapshot:" \o name

-----------------------------------------------------------------------------
(* Exception messages of the provider calls *)

AlreadyExists == "DBSnapshotAlreadyExists"

NotFound == "DBSnapshotNotFound"

AccessDenied == "AccessDenied"

MaxAttemptsExceeded == "Waiter DBSnapshotAvailable failed: Max attempts exceeded"

TerminalFailure == "Waiter DBSnapshotAvailable failed: Waiter encountered a terminal failure state"

-----------------------------------------------------------------------------
(* The result records of lambda_handler *)

\* The two names change places in the message.
SuccessResultSwapped(sname, cname) ==
    [statusCode |-> 200,
     body |-> "Snapshot " \o cname \o " created and copied as " \o sname
              \o " to " \o destination_region]

(* lines 48-51 *)
SuccessResult(sname, cname) ==
    [statusCode |-> 200,
     body |-> "Snapshot " \o sname \o " created and copied as " \o cname
              \o " to " \o destination_region]

\* The message of the exception is left out.
FailureResultNoMessage(m) == [statusCode |-> 500, body |-> "Failed"]

(* lines 53-58 *)
FailureResult(m) == [statusCode |-> 500, body |-> "Failed: " \o m]

NoResult == [statusCode |-> 0, body |-> ""]

Returned(rec) == rec.result.statusCode # 0

\* The record of an invocation that has just entered lambda_handler; prior is
\* the set of invocations that had returned by then.
NewInvocation(p) ==
    [proc |-> p, start |-> clock,
     prior |-> {i \in 1..Len(invs) : Returned(invs[i])},
     nCreate |-> 0, createName |-> "", createOk |-> FALSE,
     nWait |-> 0, waitName |-> "", waitOk |-> FALSE,
     nCopy |-> 0, copyArn |-> "", copyTarget |-> "", copyOk |-> FALSE,
     raisedAt |-> "none", raisedMsg |-> "", result |-> NoResult]

Running(p) == pc[p] # "idle"

ModuleGlobals == <<loaded, timestamp, snapshot_name, copy_name>>

TypeOK ==
    /\ clock \in 0..MaxClock
    /\ loaded \in [Procs -> BOOLEAN]
    /\ pc \in [Procs -> {"idle", "create", "wait", "copy"}]
    /\ cur \in [Procs -> 0..Len(invs)]
    /\ attempts \in [Procs -> 0..MaxAttempts]
    /\ Len(invs) <= MaxInvocations
    /\ \A p \in Procs : Running(p) <=> cur[p] # 0
    /\ \A p \in Procs : Running(p) => loaded[p] /\ invs[cur[p]].proc = p

Init ==
    /\ clock = 0
    /\ loaded = [p \in Procs |-> FALSE]
    /\ timestamp = [p \in Procs |-> ""]
    /\ snapshot_name = [p \in Procs |-> ""]
    /\ copy_name = [p \in Procs |-> ""]
    /\ pc = [p \in Procs |-> "idle"]
    /\ cur = [p \in Procs |-> 0]
    /\ attempts = [p \in Procs |-> 0]
    /\ invs = <<>>
    /\ src = <<>>
    /\ dst = <<>>

-----------------------------------------------------------------------------
(* The clock and the load of a process.  A process is loaded once: an      *)
(* execution environment that is discarded and started again is another    *)
(* process.  Once the last invocation of the model has started, nothing    *)
(* reads the clock or loads a module any more.                             *)

Tick ==
    /\ clock < MaxClock
    /\ Len(invs) < MaxInvocations
    /\ clock' = clock + 1
    /\ UNCHANGED <<ModuleGlobals, pc, cur, attempts, invs, src, dst>>

\* The module body, lines 5-15: it runs once, when the process is loaded.
Load(p) ==
    /\ ~loaded[p]
    /\ Len(invs) < MaxInvocations
    /\ loaded' = [loaded EXCEPT ![p] = TRUE]
    /\ timestamp' = [timestamp EXCEPT ![p] = strftime(utcnow)]
    /\ snapshot_name' = [snapshot_name EXCEPT ![p] = SnapshotNameOf(timestamp'[p])]
    /\ copy_name' = [copy_name EXCEPT ![p] = CopyNameOf(timestamp'[p])]
    /\ UNCHANGED <<clock, pc, cur, attempts, invs, src, dst>>

\* lambda_handler(event, context) is entered, line 17.  The module globals are
\* read, never assigned: the handler uses the names the load left.
Invoke(p) ==
    /\ loaded[p]
    /\ ~Running(p)
    /\ Len(invs) < MaxInvocations
    /\ invs' = Append(invs, NewInvocation(p))
    /\ cur' = [cur EXCEPT ![p] = Len(invs) + 1]
    /\ pc' = [pc EXCEPT ![p] = "create"]
    /\ UNCHANGED <<clock, ModuleGlobals, attempts, src, dst>>

\* The handler goes on to its next call.
Goto(p, label) ==
    /\ pc' = [pc EXCEPT ![p] = label]
    /\ cur' = cur

\* The handler returns: the process is free for its next invocation.
Return(p) ==
    /\ pc' = [pc EXCEPT ![p] = "idle"]
    /\ cur' = [cur EXCEPT ![p] = 0]

-----------------------------------------------------------------------------
(* Step 1, lines 20-24: rds.create_db_snapshot *)

\* The service refuses a snapshot identifier that is in use in the region.
CreateErrors(p) ==
    IF snapshot_name[p] \in DOMAIN src THEN {AlreadyExists} ELSE {AccessDenied}

Created(rec) ==
    [rec EXCEPT !.nCreate = @ + 1, !.createName = snapshot_name[rec.proc]]

CreateReturns(p) ==
    /\ pc[p] = "create"
    /\ snapshot_name[p] \notin DOMAIN src
    /\ src' = (snapshot_name[p] :> "creating") @@ src
    /\ invs' = [invs EXCEPT ![cur[p]] = [Created(@) EXCEPT !.createOk = TRUE]]
    /\ Goto(p, "wait")
    /\ UNCHANGED <<clock, ModuleGlobals, attempts, dst>>

\* The exception of the create call is swallowed and the handler goes on.
CreateRaisesGoesOn(p, m) ==
    /\ pc[p] = "create"
    /\ m \in CreateErrors(p)
    /\ invs' = [invs EXCEPT ![cur[p]] =
                   [Created(@) EXCEPT !.raisedAt = "create", !.raisedMsg = m]]
    /\ Goto(p, "wait")
    /\ UNCHANGED <<clock, ModuleGlobals, attempts, src, dst>>

\* The call raises; the except clause of lines 53-58 returns the failure.
CreateRaises(p, m) ==
    /\ pc[p] = "create"
    /\ m \in CreateErrors(p)
    /\ invs' = [invs EXCEPT ![cur[p]] =
                   [Created(@) EXCEPT !.raisedAt = "create", !.raisedMsg = m,
                                      !.result = FailureResult(m)]]
    /\ Return(p)
    /\ UNCHANGED <<clock, ModuleGlobals, attempts, src, dst>>

-----------------------------------------------------------------------------
(* Step 2, lines 26-33: waiter.wait of 'db_snapshot_available'.  One action  *)
(* is one poll of the waiter: describe the snapshot and count the attempt,   *)
(* then return, raise, or sleep Delay seconds and poll again, with at most   *)
(* MaxAttempts polls in all.  The attempt counter is a local of the wait.    *)

Polled(rec) ==
    [rec EXCEPT !.nWait = IF attempts[rec.proc] = 0 THEN @ + 1 ELSE @,
                !.waitName = snapshot_name[rec.proc]]

SnapshotStatus(p) ==
    IF snapshot_name[p] \in DOMAIN src THEN src[snapshot_name[p]] ELSE "missing"

\* What a poll that does not see 'available' raises, if it raises.
WaiterErrors(p) ==
    {AccessDenied}
    \cup (IF SnapshotStatus(p) = "failed" THEN {TerminalFailure} ELSE {})
    \cup (IF SnapshotStatus(p) = "missing" THEN {NotFound} ELSE {})
    \cup (IF SnapshotStatus(p) = "creating" /\ attempts[p] + 1 >= MaxAttempts
          THEN {MaxAttemptsExceeded} ELSE {})

\* The wait returns whatever the status of the snapshot is.
WaiterSucceedsAnyStatus(p) ==
    /\ pc[p] = "wait"
    /\ invs' = [invs EXCEPT ![cur[p]] = Polled(@)]
    /\ attempts' = [attempts EXCEPT ![p] = 0]
    /\ Goto(p, "copy")
    /\ UNCHANGED <<clock, ModuleGlobals, src, dst>>

\* The poll sees 'available': the wait returns, line 33.
WaiterSucceeds(p) ==
    /\ pc[p] = "wait"
    /\ SnapshotStatus(p) = "available"
    /\ invs' = [invs EXCEPT ![cur[p]] = [Polled(@) EXCEPT !.waitOk = TRUE]]
    /\ attempts' = [attempts EXCEPT ![p] = 0]
    /\ Goto(p, "copy")
    /\ UNCHANGED <<clock, ModuleGlobals, src, dst>>

\* The poll sees 'creating' and attempts are left: sleep and poll again.
WaiterRetries(p) ==
    /\ pc[p] = "wait"
    /\ SnapshotStatus(p) = "creating"
    /\ attempts[p] + 1 < MaxAttempts
    /\ invs' = [invs EXCEPT ![cur[p]] = Polled(@)]
    /\ attempts' = [attempts EXCEPT ![p] = @ + 1]
    /\ UNCHANGED <<clock, ModuleGlobals, pc, cur, src, dst>>

\* The wait raises (no attempt left, a terminal state, or the describe call
\* failed); the except clause of lines 53-58 returns the failure.
WaiterRaises(p, m) ==
    /\ pc[p] = "wait"
    /\ SnapshotStatus(p) # "available"
    /\ m \in WaiterErrors(p)
    /\ invs' = [invs EXCEPT ![cur[p]] =
                   [Polled(@) EXCEPT !.raisedAt = "wait", !.raisedMsg = m,
                                     !.result = FailureResult(m)]]
    /\ attempts' = [attempts EXCEPT ![p] = 0]
    /\ Return(p)
    /\ UNCHANGED <<clock, ModuleGlobals, src, dst>>

-----------------------------------------------------------------------------
(* Step 3, lines 35-51: dest_rds.copy_db_snapshot, then the success result *)

\* The copy asks for the copy name as its source.
CopyRequestOfCopyName(p) ==
    [source |-> snapshot_arn(copy_name[p]), target |-> copy_name[p]]

\* SourceDBSnapshotIdentifier and TargetDBSnapshotIdentifier, lines 36-41.
CopyRequest(p) ==
    [source |-> snapshot_arn(snapshot_name[p]), target |-> copy_name[p]]

\* The snapshots of the source region a source reference addresses.
Resolve(arn) == {n \in DOMAIN src : snapshot_arn(n) = arn}

\* The service copies an available snapshot to a target identifier that is
\* not in use in the destination region.
CanCopy(req) ==
    /\ req.target \notin DOMAIN dst
    /\ \E n \in Resolve(req.source) : src[n] = "available"

CopyErrors(p) ==
    {AccessDenied}
    \cup (IF CopyRequest(p).target \in DOMAIN dst THEN {AlreadyExists} ELSE {})
    \cup (IF \A n \in Resolve(CopyRequest(p).source) : src[n] # "available"
          THEN {NotFound} ELSE {})

Copied(rec) ==
    [rec EXCEPT !.nCopy = @ + 1,
                !.copyArn = CopyRequest(rec.proc).source,
                !.copyTarget = CopyRequest(rec.proc).target]

NewCopy(req) == req.target :> [status |-> "creating", source |-> req.source]

\* The handler waits for the copy before it returns.
CopyReturnsThenWaits(p) ==
    /\ pc[p] = "copy"
    /\ CanCopy(CopyRequest(p))
    /\ dst' = NewCopy(CopyRequest(p)) @@ dst
    /\ invs' = [invs EXCEPT ![cur[p]] = [Copied(@) EXCEPT !.copyOk = TRUE]]
    /\ Goto(p, "wait")
    /\ UNCHANGED <<clock, ModuleGlobals, attempts, src>>

\* The call returns with the copy in state 'creating'; the handler returns
\* the success result at once, lines 46-51.
CopyReturns(p) ==
    /\ pc[p] = "copy"
    /\ CanCopy(CopyRequest(p))
    /\ dst' = NewCopy(CopyRequest(p)) @@ dst
    /\ invs' = [invs EXCEPT ![cur[p]] =
                   [Copied(@) EXCEPT !.copyOk = TRUE,
                                     !.result = SuccessResult(snapshot_name[p], copy_name[p])]]
    /\ Return(p)
    /\ UNCHANGED <<clock, ModuleGlobals, attempts, src>>

\* The except clause deletes the snapshot the invocation created.
CopyRaisesCleansUp(p, m) ==
    /\ pc[p] = "copy"
    /\ m \in CopyErrors(p)
    /\ invs' = [invs EXCEPT ![cur[p]] =
                   [Copied(@) EXCEPT !.raisedAt = "copy", !.raisedMsg = m,
                                     !.result = FailureResult(m)]]
    /\ src' = [n \in DOMAIN src \ {snapshot_name[p]} |-> src[n]]
    /\ Return(p)
    /\ UNCHANGED <<clock, ModuleGlobals, attempts, dst>>

\* The call raises; the except clause of lines 53-58 returns the failure.
CopyRaises(p, m) ==
    /\ pc[p] = "copy"
    /\ m \in CopyErrors(p)
    /\ invs' = [invs EXCEPT ![cur[p]] =
                   [Copied(@) EXCEPT !.raisedAt = "copy", !.raisedMsg = m,
                                     !.result = FailureResult(m)]]
    /\ Return(p)
    /\ UNCHANGED <<clock, ModuleGlobals, attempts, src, dst>>

-----------------------------------------------------------------------------
(* The service: snapshots and copies leave 'creating' on their own *)

SnapshotCompletes(n) ==
    /\ n \in DOMAIN src
    /\ src[n] = "creating"
    /\ \E st \in {"available", "failed"} : src' = [src EXCEPT ![n] = st]
    /\ UNCHANGED <<clock, ModuleGlobals, pc, cur, attempts, invs, dst>>

CopyCompletes(c) ==
    /\ c \in DOMAIN dst
    /\ dst[c].status = "creating"
    /\ \E st \in {"available", "failed"} : dst' = [dst EXCEPT ![c].status = st]
    /\ UNCHANGED <<clock, ModuleGlobals, pc, cur, attempts, invs, src>>

-----------------------------------------------------------------------------

\* One step of lambda_handler in process p.
HandlerStep(p) ==
    \/ CreateReturns(p)
    \/ \E m \in CreateErrors(p) : CreateRaises(p, m)
    \/ WaiterSucceeds(p)
    \/ WaiterRetries(p)
    \/ \E m \in WaiterErrors(p) : WaiterRaises(p, m)
    \/ CopyReturns(p)
    \/ \E m \in CopyErrors(p) : CopyRaises(p, m)

Next ==
    \/ Tick
    \/ \E p \in Procs : Load(p)
    \/ \E p \in Procs : Invoke(p)
    \/ \E p \in Procs : HandlerStep(p)
    \/ \E n \in DOMAIN src : SnapshotCompletes(n)
    \/ \E c \in DOMAIN dst : CopyCompletes(c)

Spec == Init /\ [][Next]_vars

-----------------------------------------------------------------------------
(* Properties *)

Invs == 1..Len(invs)

StatusOf(i) == invs[i].result.statusCode

\* Process p takes a handler step in this transition.
Stepped(p) == Running(p) /\ (pc'[p] # pc[p] \/ attempts'[p] # attempts[p])

\* C1: copy_db_snapshot is issued only after create_db_snapshot has returned
\* and the wait has reported 'available'; an invocation whose wait raised (the
\* snapshot stayed 'creating' at every poll) returns 500 and has called
\* copy_db_snapshot zero times.
C1_CopyOnlyAfterAvailable ==
    /\ \A i \in Invs :
         /\ invs[i].nCopy > 0 => invs[i].createOk /\ invs[i].nWait = 1 /\ invs[i].waitOk
         /\ invs[i].raisedAt = "wait" => StatusOf(i) = 500 /\ invs[i].nCopy = 0
         /\ invs[i].raisedMsg = MaxAttemptsExceeded => invs[i].raisedAt = "wait"
    /\ \A p \in Procs : pc[p] = "copy" => invs[cur[p]].createOk /\ invs[cur[p]].waitOk

C1_Witness ==
    \E i, j \in Invs :
        /\ invs[i].raisedMsg = MaxAttemptsExceeded
        /\ StatusOf(i) = 500 /\ invs[i].nCopy = 0
        /\ invs[j].nCopy = 1 /\ invs[j].waitOk

\* C2: whichever of the three calls raises with message m, the handler returns
\* statusCode 500 with body 'Failed: ' followed by m.
C2_UniformFailure ==
    \A i \in Invs :
        invs[i].raisedAt # "none" =>
            /\ invs[i].raisedAt \in {"create", "wait", "copy"}
            /\ invs[i].result = [statusCode |-> 500, body |-> "Failed: " \o invs[i].raisedMsg]

C2_Witness ==
    \E i, j \in Invs :
        /\ invs[i].raisedAt = "create" /\ invs[i].result.body = "Failed: DBSnapshotAlreadyExists"
        /\ invs[j].raisedAt = "copy" /\ invs[j].result.body = "Failed: AccessDenied"

\* C3: a returned invocation has status 200 exactly when create, wait and copy
\* all succeeded, and 500 otherwise; the body of a 200 names the snapshot name
\* of the create call, the copy name of the copy call and the destination
\* region.
C3_SuccessShape ==
    \A i \in Invs :
        /\ (invs[i].createOk /\ invs[i].waitOk /\ invs[i].copyOk) => StatusOf(i) = 200
        /\ Returned(invs[i]) =>
             /\ StatusOf(i) \in {200, 500}
             /\ StatusOf(i) = 200 <=> (invs[i].createOk /\ invs[i].waitOk /\ invs[i].copyOk)
             /\ StatusOf(i) = 200 =>
                  invs[i].result.body =
                      "Snapshot " \o invs[i].createName \o " created and copied as "
                      \o invs[i].copyTarget \o " to destination-region"

C3_Witness ==
    \E i, j \in Invs : StatusOf(i) = 200 /\ StatusOf(j) = 500

\* C4: two invocations whose start times differ by at least one second pass
\* distinct snapshot names to create_db_snapshot and distinct copy names to
\* copy_db_snapshot.
C4_DistinctNames ==
    \A i, j \in Invs :
        (i # j /\ (invs[j].start >= invs[i].start + 1)) =>
            /\ (invs[i].nCreate > 0 /\ invs[j].nCreate > 0)
                   => invs[i].createName # invs[j].createName
            /\ (invs[i].nCopy > 0 /\ invs[j].nCopy > 0)
                   => invs[i].copyTarget # invs[j].copyTarget

\* C5: the step in which copy_db_snapshot returns without error is the step in
\* which the handler returns 200, with the copy still in state 'creating'; the
\* handler makes no further call.
C5_ReturnsOnCopyInitiated ==
    [][\A p \in Procs :
          (pc[p] = "copy" /\ invs'[cur[p]].copyOk) =>
              /\ pc'[p] = "idle"
              /\ invs'[cur[p]].result.statusCode = 200
              /\ invs'[cur[p]].copyTarget \in DOMAIN dst'
              /\ dst'[invs'[cur[p]].copyTarget].status = "creating"]_vars

C5_Witness ==
    \E i \in Invs :
        /\ StatusOf(i) = 200
        /\ dst[invs[i].copyTarget].status = "creating"

\* C6: of two invocations that pass the same name to create_db_snapshot at
\* most one succeeds at the create; the other fails at the create step, issues
\* neither the wait nor the copy and returns 500; a create issued for a name
\* that exists raises the naming conflict and changes nothing.
C6_SameNameConflict ==
    /\ [](\A i, j \in Invs :
            (i # j /\ invs[i].nCreate > 0 /\ invs[j].nCreate > 0
                   /\ invs[i].createName = invs[j].createName) =>
                /\ ~(invs[i].createOk /\ invs[j].createOk)
                /\ invs[i].createOk =>
                     /\ invs[j].raisedAt = "create"
                     /\ invs[j].nWait = 0 /\ invs[j].nCopy = 0
                     /\ StatusOf(j) = 500)
    /\ [][\A p \in Procs :
            (pc[p] = "create" /\ snapshot_name[p] \in DOMAIN src /\ Stepped(p)) =>
                /\ pc'[p] = "idle"
                /\ invs'[cur[p]].raisedMsg = AlreadyExists
                /\ invs'[cur[p]].result.statusCode = 500
                /\ src' = src /\ dst' = dst]_vars

C6_Witness ==
    \E i, j \in Invs :
        /\ i # j /\ invs[i].createName = invs[j].createName
        /\ invs[i].createOk
        /\ invs[j].raisedMsg = AlreadyExists /\ StatusOf(j) = 500
        /\ invs[j].nWait = 0 /\ invs[j].nCopy = 0

\* The provider calls an invocation of process p can still make.
Remaining(label, n) ==
    CASE label = "create" -> 12 - n
      [] label = "wait"   -> 11 - n
      [] label = "copy"   -> 1
      [] OTHER            -> 0

\* C7: a wait polls at most 10 times; a poll that sees 'available' ends the
\* wait with success; the 10th poll, if it sees 'creating', ends the
\* invocation with 500; a running invocation can always take a step and every
\* step lowers the number of provider calls left, at most 12 at the start.
C7_BoundedWait ==
    /\ [](\A p \in Procs :
            /\ attempts[p] < 10
            /\ pc[p] # "wait" => attempts[p] = 0
            /\ Running(p) => ENABLED HandlerStep(p))
    /\ [][\A p \in Procs :
            Stepped(p) =>
                /\ Remaining(pc'[p], attempts'[p]) < Remaining(pc[p], attempts[p])
                /\ (pc[p] = "wait" /\ SnapshotStatus(p) = "available") =>
                       pc'[p] = "copy" /\ invs'[cur[p]].waitOk
                /\ (pc[p] = "wait" /\ SnapshotStatus(p) # "available") =>
                       ~invs'[cur[p]].waitOk /\ pc'[p] \in {"wait", "idle"}
                /\ (pc[p] = "wait" /\ SnapshotStatus(p) = "creating" /\ attempts[p] = 9) =>
                       pc'[p] = "idle" /\ invs'[cur[p]].result.statusCode = 500]_vars

C7_Witness ==
    \E p \in Procs : pc[p] = "wait" /\ attempts[p] = 9 /\ SnapshotStatus(p) = "creating"

\* C8: when an invocation failed after its create succeeded, a retry started
\* after it returned (at least one second after it started) passes a different
\* name to create_db_snapshot, and no copy of the first snapshot exists.
C8_RetryUsesNewName ==
    \A i, j \in Invs :
        (/\ i \in invs[j].prior
         /\ invs[i].createOk /\ StatusOf(i) = 500
         /\ invs[j].start >= invs[i].start + 1
         /\ invs[j].nCreate > 0) =>
            /\ invs[j].createName # invs[i].createName
            /\ \A c \in DOMAIN dst : invs[i].createName \notin Resolve(dst[c].source)

\* C9: an invocation calls create, wait and copy at most once each; once a
\* call has raised the invocation has returned and its record never changes
\* (no retry, no later step); the step that raises changes no snapshot, and no
\* snapshot is ever removed from the source region.
C9_NoRetryNoCleanup ==
    /\ [](\A i \in Invs :
            /\ invs[i].nCreate <= 1 /\ invs[i].nWait <= 1 /\ invs[i].nCopy <= 1
            /\ invs[i].raisedAt = "create" => invs[i].nWait = 0 /\ invs[i].nCopy = 0
            /\ invs[i].raisedAt = "wait" => invs[i].nCopy = 0
            /\ invs[i].raisedAt # "none" =>
                   Returned(invs[i]) /\ \A p \in Procs : cur[p] # i)
    /\ [][/\ \A i \in Invs : Returned(invs[i]) => invs'[i] = invs[i]
          /\ \A p \in Procs :
                (Running(p) /\ invs'[cur[p]].raisedAt # "none") => src' = src /\ dst' = dst
          /\ \A n \in DOMAIN src : n \in DOMAIN src']_vars

C9_Witness ==
    \E i \in Invs :
        /\ invs[i].raisedAt = "copy" /\ StatusOf(i) = 500
        /\ invs[i].createName \in DOMAIN src
        /\ src[invs[i].createName] = "available"

Timestamps == {strftime(BaseEpoch + t) : t \in 0..MaxClock}

\* C10: the name waited on and the name in the source reference of the copy
\* are the name passed to create_db_snapshot by the same invocation, whose
\* create succeeded; the copy name carries the timestamp of that name; every
\* copy in the destination region was asked for by such an invocation.
C10_OneNameThroughout ==
    /\ \A i \in Invs :
         /\ invs[i].nWait > 0 => invs[i].waitName = invs[i].createName
         /\ invs[i].nCopy > 0 =>
              /\ invs[i].createOk
              /\ invs[i].copyArn =
                     "arn:aws:rds:source-region:add-your-aws-account-id-here:snapshot:"
                     \o invs[i].createName
              /\ \E ts \in Timestamps :
                     /\ invs[i].createName = "rds-auto-snapshot-mainline-" \o ts
                     /\ invs[i].copyTarget = "rds-auto-copy-mainline-" \o ts
    /\ \A c \in DOMAIN dst :
         \E i \in Invs :
             /\ invs[i].copyOk /\ invs[i].copyTarget = c
             /\ dst[c].source = invs[i].copyArn

C10_Witness ==
    \E i \in Invs :
        /\ invs[i].copyOk
        /\ invs[i].waitName = "rds-auto-snapshot-mainline-20261231-235959"
        /\ invs[i].copyArn =
               "arn:aws:rds:source-region:add-your-aws-account-id-here:snapshot:rds-auto-snapshot-mainline-20261231-235959"
        /\ invs[i].copyTarget = "rds-auto-copy-mainline-20261231-235959"

====
